---- MODULE Spec2Model ----
(***************************************************************************)
(* A state-machine model of the TCP connection engine NTPlatform           *)
(* (src/README.md, lines 156-549): framing of the inbound byte stream,     *)
(* classification and dispatch of inbound frames, correlation of commands  *)
(* with their responses, notification de-duplication, reconnection.        *)
(*                                                                         *)
(* One action per handler: the socket's connect / timeout / close / error  *)
(* / data handlers, the three kinds of timer callback (request timeout,    *)
(* reconnection, auto-subscribe) and the public operations send,           *)
(* callCommand, subscribe, unsubscribe, destroy.                           *)
(***************************************************************************)
EXTENDS Integers, Sequences, FiniteSets, TLC

\* ------------------------------------------------------------------------
\* Bounds of the exploration
\* ------------------------------------------------------------------------
\* Commands issued in one behaviour (explicit sends, dynamic calls,
\* subscribe / unsubscribe and auto-subscribes together).
MaxReq == 2
\* Distinct extIDs a caller supplies by hand (README "Old Format").
NumCallerIDs == 1
\* The cap of seenNotifyTokens (10000 in the source, line 353), scaled down
\* so that eviction happens within the explored runs.
SeenCap == 2
\* Length of the byte streams fed to the framer in SpecFramer.
MaxStream == 4
\* Socket errors in a row, with no 'connect' between them, in SpecReconnect.
MaxStreak == 10

\* ------------------------------------------------------------------------
\* Program constants
\* ------------------------------------------------------------------------
RECONNECT_DELAY_MS == 4000
RESPONSE_TIMEOUT_MS == 30000
AUTO_SUBSCRIBE_DELAY_MS == 500
MAX_RECONNECT_DELAY_MS == 30000
MAX_ERRORS == 10

Min(a, b) == IF a <= b THEN a ELSE b

RECURSIVE Pow(_, _)
Pow(b, e) == IF e = 0 THEN 1 ELSE b * Pow(b, e - 1)

\* ------------------------------------------------------------------------
\* extIDs.  A caller-supplied extID is one of CallerIDs; generateExtID()
\* draws 48 random bits, modelled as an id no other request carries: the
\* r-th command that needs one gets NumCallerIDs + r.  0 stands for an
\* absent (or falsy) extID.
\* ------------------------------------------------------------------------
CallerIDs == 1..NumCallerIDs
generateExtID(r) == NumCallerIDs + r
AllIDs == 1..(NumCallerIDs + MaxReq)
Requests == 1..MaxReq

\* ------------------------------------------------------------------------
\* Parsed JSON values.  Every value is a record with the same fields, so
\* that the classification code can inspect any of them; "" and 0 stand
\* for an absent (or falsy) field, and keys tells the two apart for the
\* data of an event.
\* ------------------------------------------------------------------------
NoJson ==
    [shape |-> "none", marker |-> "", len |-> 0,
     symbol |-> "", symbolIsString |-> FALSE, bidIsNumber |-> FALSE,
     askIsNumber |-> FALSE, token |-> 0, level |-> "",
     event |-> "", login |-> "", dsymbol |-> "", group |-> "",
     keys |-> {}, extID |-> 0, body |-> ""]

\* {"extID": id, ...body}
Response(id, body) == [NoJson EXCEPT !.shape = "object", !.extID = id, !.body = body]
\* ["n", msg, desc, token, status, level, user_id, time, data, code]
Notify(tok, level) ==
    [NoJson EXCEPT !.shape = "array", !.marker = "n", !.len = 10,
                   !.token = tok, !.level = level]
\* ["t", symbol, bid, ask, timestamp]
Quote(sym, symStr, bidNum, askNum) ==
    [NoJson EXCEPT !.shape = "array", !.marker = "t", !.len = 5, !.symbol = sym,
                   !.symbolIsString = symStr, !.bidIsNumber = bidNum,
                   !.askIsNumber = askNum]
\* ["sr", [...]] and ["sc", [...]]
Reindex(marker, len) == [NoJson EXCEPT !.shape = "array", !.marker = marker, !.len = len]
\* the value of key k of an event's data
DataValue(v, k) ==
    IF k = "login" THEN v.login ELSE IF k = "symbol" THEN v.dsymbol ELSE v.group
\* {"event": e, "type": ..., "data": {login?, symbol?, group?}, "extID"?: id};
\* keys holds the keys that data has, here those given a non-empty value
EventObject(e, login, sym, group, id) ==
    [NoJson EXCEPT !.shape = "object", !.event = e, !.login = login,
                   !.dsymbol = sym, !.group = group, !.extID = id,
                   !.keys = {k \in {"login", "symbol", "group"} :
                                DataValue([login |-> login, dsymbol |-> sym,
                                           group |-> group], k) # ""}]
\* the same with the keys of keys in data; a key of keys whose value is ""
\* is in data with the empty string ({"symbol": ""})
EventWithKeys(e, login, sym, group, keys) ==
    [EventObject(e, login, sym, group, 0) EXCEPT !.keys = keys]
\* a JSON scalar such as null or 5
Scalar == [NoJson EXCEPT !.shape = "scalar"]

\* ------------------------------------------------------------------------
\* Wire text.  A byte (and, after decoding, a character) is a record:
\*   CR, LF, SP   the ASCII bytes 13, 10, 32;
\*   C3, A9       the two bytes of the UTF-8 encoding of U+00E9;
\*   text         a run of ASCII bytes holding no CR, LF or blank, whose
\*                JSON value is json; tc says that the text carries a
\*                trailing comma before its closing bracket;
\*   junk         a run of ASCII bytes that is no JSON text ("{not json").
\* Decoding adds the characters EACUTE (U+00E9) and FFFD (U+FFFD).
\* ------------------------------------------------------------------------
Ch(c) == [ch |-> c, json |-> NoJson, tc |-> FALSE]
Text(j) == [ch |-> "text", json |-> j, tc |-> FALSE]
TextTrailingComma(j) == [ch |-> "text", json |-> j, tc |-> TRUE]
CR == Ch("CR")
LF == Ch("LF")
SP == Ch("SP")
JUNK == Ch("junk")
CRLF == <<CR, LF>>
\* one complete frame on the wire
Frame(j) == <<Text(j)>> \o CRLF

Drop(s, n) == SubSeq(s, n + 1, Len(s))

\* ------------------------------------------------------------------------
\* Buffer.toString() (utf8) of one read chunk: a complete C3 A9 pair decodes
\* to U+00E9; a lead byte with no continuation byte after it in the chunk,
\* and a continuation byte with no lead byte before it, each decode to
\* U+FFFD.
\* ------------------------------------------------------------------------
RECURSIVE toString(_)
toString(bytes) ==
    IF bytes = <<>> THEN <<>>
    ELSE IF bytes[1].ch = "C3" /\ Len(bytes) >= 2 /\ bytes[2].ch = "A9"
         THEN <<Ch("EACUTE")>> \o toString(Drop(bytes, 2))
    ELSE IF bytes[1].ch \in {"C3", "A9"}
         THEN <<Ch("FFFD")>> \o toString(Tail(bytes))
    ELSE <<bytes[1]>> \o toString(Tail(bytes))

\* String.prototype.lastIndexOf('\r\n'), 1-based; 0 when JS gives -1.
IsDelimiterAt(s, i) == i >= 1 /\ i + 1 <= Len(s) /\ s[i] = CR /\ s[i + 1] = LF
lastIndexOf(s) ==
    LET hits == {i \in 1..Len(s) : IsDelimiterAt(s, i)}
    IN IF hits = {} THEN 0 ELSE CHOOSE i \in hits : \A k \in hits : k <= i
indexOf(s) ==
    LET hits == {i \in 1..Len(s) : IsDelimiterAt(s, i)}
    IN IF hits = {} THEN 0 ELSE CHOOSE i \in hits : \A k \in hits : i <= k

\* String.prototype.split('\r\n')
RECURSIVE split(_)
split(s) ==
    LET i == indexOf(s)
    IN IF i = 0 THEN <<s>>
       ELSE <<SubSeq(s, 1, i - 1)>> \o split(Drop(s, i + 1))

IsWhitespace(c) == c.ch \in {"CR", "LF", "SP"}

\* String.prototype.trim()
RECURSIVE trimStart(_)
trimStart(s) ==
    IF s # <<>> /\ IsWhitespace(s[1]) THEN trimStart(Tail(s)) ELSE s
RECURSIVE trimEnd(_)
trimEnd(s) ==
    IF s # <<>> /\ IsWhitespace(s[Len(s)]) THEN trimEnd(SubSeq(s, 1, Len(s) - 1)) ELSE s
trim(s) == trimEnd(trimStart(s))

\* jsonRepair(str): drops every \n, \r and \t, drops a trailing comma before
\* a closing brace or bracket, trims.
jsonRepair(str) ==
    LET noCtl == SelectSeq(str, LAMBDA c : c.ch \notin {"CR", "LF"})
        noComma == [i \in 1..Len(noCtl) |-> [noCtl[i] EXCEPT !.tc = FALSE]]
    IN trim(noComma)

\* JSON.parse(cleaned) returns a value exactly when cleaned is one JSON text
\* (blanks around it are allowed, anything else beside it is a SyntaxError).
ParseOk(cleaned) ==
    LET solid == SelectSeq(cleaned, LAMBDA c : c.ch # "SP")
    IN Len(solid) = 1 /\ solid[1].ch = "text" /\ ~solid[1].tc
ParseValue(cleaned) == SelectSeq(cleaned, LAMBDA c : c.ch # "SP")[1].json

\* The framing step of handleData (lines 301-308): the tokens of the
\* received text up to the last delimiter, and the text kept for later.
FrameTokens(buffer) ==
    LET delimiterPos == lastIndexOf(buffer)
    IN IF delimiterPos = 0 THEN <<>>
       ELSE split(SubSeq(buffer, 1, delimiterPos - 1))
FrameRest(buffer) ==
    LET delimiterPos == lastIndexOf(buffer)
    IN IF delimiterPos = 0 THEN buffer ELSE Drop(buffer, delimiterPos + 1)
\* line 311: if (!token.trim()) continue;
IsBlank(token) == trim(token) = <<>>

\* ------------------------------------------------------------------------
\* Topics of the emitter.  `${name}:${key}` is [name, key]; the topic named
\* by an extID is [id].
\* ------------------------------------------------------------------------
Topic(name) == [name |-> name, sub |-> FALSE, key |-> "", id |-> 0]
SubTopic(name, key) == [name |-> name, sub |-> TRUE, key |-> key, id |-> 0]
IdTopic(id) == [name |-> "", sub |-> FALSE, key |-> "", id |-> id]
\* String.prototype.toUpperCase() on the symbols used here
toUpperCase(s) == IF s = "eurusd" THEN "EURUSD" ELSE s

\* ------------------------------------------------------------------------
\* The part of the engine that the processing of one token reads and
\* writes, as a record m:
\*   ignoreEvents      options.ignoreEvents
\*   seenNotifyTokens  the Set, in insertion order
\*   pendingRequests   the Map: extID -> the request whose {resolve, reject,
\*                     timeout} it holds, 0 when the extID has no entry
\*   fut, futVal       each request's promise: its state and its value
\*   timer             each request's timeout timer is armed
\*   settles           how often resolve / reject of each promise was called
\*   out               what emitter.emit was called with, in order
\* ------------------------------------------------------------------------
\* emit without the test of this.ignoreEvents
emitUnconditional(m, topic, data) ==
    [m EXCEPT !.out = Append(@, [topic |-> topic, data |-> data])]

\* emit(name, data), lines 428-432
emit(m, topic, data) ==
    IF ~m.ignoreEvents
    THEN [m EXCEPT !.out = Append(@, [topic |-> topic, data |-> data])]
    ELSE m

\* resolve(value) / reject(error) of request r's promise: a promise settles
\* once, later calls leave it as it is.
Settle(m, r, how, value) ==
    [m EXCEPT !.settles[r] = @ + 1,
              !.fut[r] = IF @ = "pending" THEN how ELSE @,
              !.futVal[r] = IF m.fut[r] = "pending" THEN value ELSE @]

Has(seq, x) == \E i \in 1..Len(seq) : seq[i] = x

\* Quote: ["t", symbol, bid, ask, timestamp], lines 327-340
HandleQuote(m, parsed) ==
    IF parsed.symbolIsString /\ parsed.bidIsNumber /\ parsed.askIsNumber
    THEN emit(emit(m, Topic("quote"), parsed),
              SubTopic("quote", toUpperCase(parsed.symbol)), parsed)
    ELSE m

\* HandleNotify without the test of seenNotifyTokens.has(token)
HandleNotifyNoDedup(m, parsed) ==
    LET added == Append(m.seenNotifyTokens, parsed.token)
        kept == IF Len(added) > SeenCap THEN Tail(added) ELSE added
        m1 == [m EXCEPT !.seenNotifyTokens = kept]
    IN emit(emit(m1, [name |-> "notify", sub |-> FALSE, key |-> "", id |-> 0], parsed),
            [name |-> "notify", sub |-> TRUE, key |-> parsed.level, id |-> 0], parsed)

\* HandleNotify that deletes the token added last when the cap is exceeded
HandleNotifyEvictsNewest(m, parsed) ==
    IF Has(m.seenNotifyTokens, parsed.token) THEN m
    ELSE LET added == Append(m.seenNotifyTokens, parsed.token)
             kept == IF Len(added) > SeenCap THEN SubSeq(added, 1, SeenCap) ELSE added
             m1 == [m EXCEPT !.seenNotifyTokens = kept]
         IN emit(emit(m1, [name |-> "notify", sub |-> FALSE, key |-> "", id |-> 0], parsed),
                 [name |-> "notify", sub |-> TRUE, key |-> parsed.level, id |-> 0], parsed)

\* Notify: ["n", ...], lines 343-369
HandleNotify(m, parsed) ==
    IF Has(m.seenNotifyTokens, parsed.token) THEN m
    ELSE LET added == Append(m.seenNotifyTokens, parsed.token)
             kept == IF Len(added) > SeenCap THEN Tail(added) ELSE added
             m1 == [m EXCEPT !.seenNotifyTokens = kept]
         IN emit(emit(m1, Topic("notify"), parsed),
                 SubTopic("notify", parsed.level), parsed)

\* { type, data } of an event object: what the handlers are given
EventPayload(parsed) == [parsed EXCEPT !.event = "", !.extID = 0]

\* a value of data is truthy: of the strings, every one but the empty one
Truthy(value) == value # ""

\* HandleEvent without the emit under event:<symbol>
HandleEventSkipsSymbol(m, parsed) ==
    LET payload == EventPayload(parsed)
        m0 == emit(m, Topic(parsed.event), payload)
        m1 == IF Truthy(parsed.login)
              THEN emit(m0, SubTopic(parsed.event, parsed.login), payload) ELSE m0
    IN IF Truthy(parsed.group)
       THEN emit(m1, SubTopic(parsed.event, parsed.group), payload) ELSE m1

\* JSON event objects, lines 390-400
HandleEvent(m, parsed) ==
    LET payload == EventPayload(parsed)
        m0 == emit(m, Topic(parsed.event), payload)
        m1 == IF Truthy(parsed.login)
              THEN emit(m0, SubTopic(parsed.event, parsed.login), payload) ELSE m0
        m2 == IF Truthy(parsed.dsymbol)
              THEN emit(m1, SubTopic(parsed.event, parsed.dsymbol), payload) ELSE m1
    IN IF Truthy(parsed.group)
       THEN emit(m2, SubTopic(parsed.event, parsed.group), payload) ELSE m2

\* HandleResponse without clearTimeout
HandleResponseKeepsTimer(m, parsed) ==
    LET extID == parsed.extID
        r == m.pendingRequests[extID]
    IN IF r # 0
       THEN Settle([m EXCEPT !.pendingRequests[extID] = 0], r, "resolved", parsed.body)
       ELSE emit(m, [name |-> "", sub |-> FALSE, key |-> "", id |-> extID], parsed)

\* HandleResponse without pendingRequests.delete
HandleResponseKeepsEntry(m, parsed) ==
    LET extID == parsed.extID
        r == m.pendingRequests[extID]
    IN IF r # 0
       THEN Settle([m EXCEPT !.timer[r] = FALSE], r, "resolved", parsed.body)
       ELSE emit(m, [name |-> "", sub |-> FALSE, key |-> "", id |-> extID], parsed)

\* Command responses, lines 403-417
HandleResponse(m, parsed) ==
    LET extID == parsed.extID
        r == m.pendingRequests[extID]
    IN IF r # 0
       THEN Settle([m EXCEPT !.timer[r] = FALSE, !.pendingRequests[extID] = 0],
                   r, "resolved", parsed.body)
       ELSE emit(m, IdTopic(extID), parsed)

\* Classify with the test of extID before the test of event
ClassifyResponseFirst(m, parsed) ==
    IF parsed.shape = "array" THEN
        IF parsed.marker = "t" /\ parsed.len >= 4 THEN HandleQuote(m, parsed)
        ELSE IF parsed.marker = "n" /\ parsed.len >= 8 THEN HandleNotify(m, parsed)
        ELSE IF parsed.marker = "sr" /\ parsed.len = 2
             THEN emit(m, [name |-> "symbols:reindex", sub |-> FALSE, key |-> "", id |-> 0],
                       parsed)
        ELSE IF parsed.marker = "sc" /\ parsed.len = 2
             THEN emit(m, [name |-> "security:reindex", sub |-> FALSE, key |-> "", id |-> 0],
                       parsed)
        ELSE m
    ELSE IF parsed.shape = "object" /\ parsed.extID # 0 THEN HandleResponse(m, parsed)
    ELSE IF parsed.shape = "object" /\ parsed.event # "" THEN HandleEvent(m, parsed)
    ELSE m

\* The body of the token loop for a parsed value, lines 322-419
Classify(m, parsed) ==
    IF parsed.shape = "array" THEN
        IF parsed.marker = "t" /\ parsed.len >= 4 THEN HandleQuote(m, parsed)
        ELSE IF parsed.marker = "n" /\ parsed.len >= 8 THEN HandleNotify(m, parsed)
        ELSE IF parsed.marker = "sr" /\ parsed.len = 2
             THEN emit(m, Topic("symbols:reindex"), parsed)
        ELSE IF parsed.marker = "sc" /\ parsed.len = 2
             THEN emit(m, Topic("security:reindex"), parsed)
        ELSE m
    ELSE IF parsed.shape = "object" /\ parsed.event # "" THEN HandleEvent(m, parsed)
    ELSE IF parsed.shape = "object" /\ parsed.extID # 0 THEN HandleResponse(m, parsed)
    ELSE m

\* HandleToken with a parse error that ends the connection
HandleTokenParseErrorFatal(m, token) ==
    IF trim(token) = <<>> THEN m
    ELSE LET cleaned == jsonRepair(token)
         IN IF ParseOk(cleaned) THEN Classify(m, ParseValue(cleaned))
            ELSE [m EXCEPT !.connected = FALSE]

\* One iteration of the token loop, lines 310-420
HandleToken(m, token) ==
    IF IsBlank(token) THEN m
    ELSE LET cleaned == jsonRepair(token)
         IN IF ParseOk(cleaned) THEN Classify(m, ParseValue(cleaned)) ELSE m

RECURSIVE HandleTokens(_, _)
HandleTokens(m, tokens) ==
    IF tokens = <<>> THEN m
    ELSE HandleTokens(HandleToken(m, Head(tokens)), Tail(tokens))


\* ------------------------------------------------------------------------
\* State
\* ------------------------------------------------------------------------
VARIABLES
    \* fields of NTPlatform
    alive, connected, errorCount, recv, seenNotifyTokens, pendingRequests,
    reconnectTimer,        \* _reconnectTimer: "unset" (no such property),
                           \* "armed", or "cleared" (the property still holds
                           \* the handle of a timer that clearTimeout stopped)
    reconnectDelay,        \* the delay handed to setTimeout by reconnect(),
                           \* in thirds of a millisecond
    reconnectTimers,       \* how many timers started by reconnect() have
                           \* neither fired nor been cleared
    ignoreEvents,          \* options.ignoreEvents
    autoSubscribe,         \* autoSubscribeChannels.length > 0
    \* the socket, as Node's net.Socket behaves:
    \*   "connecting"  created, connect() under way
    \*   "open"        connect was emitted
    \*   "errored"     the socket failed: Node destroyed it and is emitting
    \*                 error and then close in the same tick
    \*   "destroyed"   socket.destroy() was called, close will be emitted in a
    \*                 later tick
    \*   "closed"      close was emitted
    socket,
    autoSubTimer,          \* the auto-subscribe timer of the connect handler
    \* the commands issued so far: request r is the r-th call of send()
    nextReq, reqID, fut, futVal, timer, settles,
    \* observation
    destroyedAt,           \* 0, or nextReq at the first destroy()
    streak,                \* SpecReconnect: the socket errors since the last
                           \* 'connect' (since construction when there was none)
    out,                   \* emitter.emit calls of the last step
    written,               \* socket.write calls of the last step
    lastOp,                \* the last step: the operation, and the chunk read
    fed, tokensOut,        \* SpecFramer: the bytes read so far and the
                           \* tokens that passed the blank test so far
    listeners              \* SpecION: the requests of the legacy client whose
                           \* emitter.once(extID, ...) listener is registered

engine == <<alive, connected, errorCount, recv, seenNotifyTokens, pendingRequests,
            reconnectTimer, reconnectDelay, reconnectTimers, ignoreEvents,
            autoSubscribe, socket, autoSubTimer, nextReq, reqID, fut, futVal, timer,
            settles>>
vars == <<engine, destroyedAt, streak, out, written, lastOp, fed, tokensOut, listeners>>

\* The engine as one record, so that a handler can be written as the
\* composition of the methods it calls.
Cur ==
    [alive |-> alive, connected |-> connected, errorCount |-> errorCount,
     recv |-> recv, seenNotifyTokens |-> seenNotifyTokens,
     pendingRequests |-> pendingRequests, reconnectTimer |-> reconnectTimer,
     reconnectDelay |-> reconnectDelay, reconnectTimers |-> reconnectTimers,
     ignoreEvents |-> ignoreEvents,
     autoSubscribe |-> autoSubscribe, socket |-> socket,
     autoSubTimer |-> autoSubTimer, nextReq |-> nextReq, reqID |-> reqID,
     fut |-> fut, futVal |-> futVal, timer |-> timer, settles |-> settles,
     out |-> <<>>, written |-> <<>>, tokens |-> <<>>]

Becomes(e) ==
    /\ alive' = e.alive
    /\ connected' = e.connected
    /\ errorCount' = e.errorCount
    /\ recv' = e.recv
    /\ seenNotifyTokens' = e.seenNotifyTokens
    /\ pendingRequests' = e.pendingRequests
    /\ reconnectTimer' = e.reconnectTimer
    /\ reconnectDelay' = e.reconnectDelay
    /\ reconnectTimers' = e.reconnectTimers
    /\ ignoreEvents' = e.ignoreEvents
    /\ autoSubscribe' = e.autoSubscribe
    /\ socket' = e.socket
    /\ autoSubTimer' = e.autoSubTimer
    /\ nextReq' = e.nextReq
    /\ reqID' = e.reqID
    /\ fut' = e.fut
    /\ futVal' = e.futVal
    /\ timer' = e.timer
    /\ settles' = e.settles
    /\ out' = e.out
    /\ written' = e.written

Op(name, chunk) == [op |-> name, chunk |-> chunk]

\* ------------------------------------------------------------------------
\* Methods of NTPlatform, as functions of the engine record
\* ------------------------------------------------------------------------
\* socket.destroy(): a socket that is already destroyed or closed stays so.
socketDestroy(e) ==
    [e EXCEPT !.socket = IF @ \in {"connecting", "open"} THEN "destroyed" ELSE @]

\* RejectAll without the call of reject
RejectAllSilent(e, how) ==
    LET held == {e.pendingRequests[id] : id \in AllIDs} \ {0}
    IN [e EXCEPT
          !.timer = [r \in Requests |-> IF r \in held THEN FALSE ELSE @[r]],
          !.pendingRequests = [id \in AllIDs |-> 0]]

\* The loops of reconnect() (lines 508-512) and destroy() (lines 533-537):
\* every entry's timer is cleared and its reject is called, then the Map
\* is cleared.
RejectAll(e, how) ==
    LET held == {e.pendingRequests[id] : id \in AllIDs} \ {0}
    IN [e EXCEPT
          !.timer = [r \in Requests |-> IF r \in held THEN FALSE ELSE @[r]],
          !.settles = [r \in Requests |-> IF r \in held THEN @[r] + 1 ELSE @[r]],
          !.fut = [r \in Requests |->
                      IF r \in held /\ @[r] = "pending" THEN how ELSE @[r]],
          !.pendingRequests = [id \in AllIDs |-> 0]]

\* Math.min(RECONNECT_DELAY_MS * Math.pow(1.5, errorCount - 1), 30000), in
\* thirds of a millisecond (1.5^-1 = 2/3): exact wherever the product is
\* below the cap.
Delay(count) ==
    IF count = 0
    THEN Min(2 * RECONNECT_DELAY_MS, 3 * MAX_RECONNECT_DELAY_MS)
    ELSE Min((3 * RECONNECT_DELAY_MS * Pow(3, count - 1)) \div Pow(2, count - 1),
             3 * MAX_RECONNECT_DELAY_MS)

\* reconnect without the setTimeout of the restart
reconnectWithoutTimer(e) ==
    IF ~e.alive \/ e.reconnectTimer # "unset" THEN e
    ELSE LET e1 == socketDestroy(e)
             e2 == [e1 EXCEPT !.seenNotifyTokens = <<>>]
             e3 == RejectAll(e2, "lost")
         IN [e3 EXCEPT !.reconnectDelay = Delay(e.errorCount)]

\* reconnect without the test of this._reconnectTimer
reconnectNoPendingTest(e) ==
    IF ~e.alive THEN e
    ELSE LET e1 == socketDestroy(e)
             e2 == [e1 EXCEPT !.seenNotifyTokens = <<>>]
             e3 == RejectAll(e2, "lost")
         IN [e3 EXCEPT !.reconnectDelay = Delay(e.errorCount),
                       !.reconnectTimer = "armed",
                       !.reconnectTimers = @ + 1]

\* reconnect(), lines 501-522
reconnect(e) ==
    IF ~e.alive \/ e.reconnectTimer # "unset" THEN e
    ELSE LET e1 == socketDestroy(e)
             e2 == [e1 EXCEPT !.seenNotifyTokens = <<>>]
             e3 == RejectAll(e2, "lost")
         IN [e3 EXCEPT !.reconnectDelay = Delay(e.errorCount),
                       !.reconnectTimer = "armed",
                       !.reconnectTimers = @ + 1]

\* createSocket(), lines 242-294, up to socket.connect()
createSocket(e) ==
    [e EXCEPT !.errorCount = 0, !.connected = FALSE, !.alive = TRUE,
              !.recv = <<>>, !.seenNotifyTokens = <<>>, !.socket = "connecting"]

\* send without the test of this.connected
sendUnchecked(e, command, payloadID, serialisable) ==
    LET r == e.nextReq
        extID == IF payloadID = 0 THEN generateExtID(r) ELSE payloadID
        e1 == [e EXCEPT !.nextReq = r + 1, !.reqID[r] = extID, !.fut[r] = "pending",
                        !.timer[r] = TRUE, !.pendingRequests[extID] = r]
    IN IF serialisable
       THEN [e1 EXCEPT !.written = Append(@, [command |-> command, extID |-> extID])]
       ELSE [e1 EXCEPT !.timer[r] = FALSE, !.pendingRequests[extID] = 0,
                       !.fut[r] = "writeerror", !.settles[r] = 1]

\* send(payload), lines 451-476, for the request r = e.nextReq.  payloadID
\* is payload.extID (0: none); serialisable says whether JSON.stringify
\* returns (it throws on a cyclic payload).
send(e, command, payloadID, serialisable) ==
    LET r == e.nextReq
        extID == IF payloadID = 0 THEN generateExtID(r) ELSE payloadID
        e0 == [e EXCEPT !.nextReq = r + 1, !.reqID[r] = extID, !.fut[r] = "pending"]
    IN IF ~e.connected
       THEN [e0 EXCEPT !.fut[r] = "notconnected", !.settles[r] = 1]
       ELSE LET e1 == [e0 EXCEPT !.timer[r] = TRUE, !.pendingRequests[extID] = r]
            IN IF serialisable
               THEN [e1 EXCEPT !.written =
                                  Append(@, [command |-> command, extID |-> extID])]
               ELSE [e1 EXCEPT !.timer[r] = FALSE, !.pendingRequests[extID] = 0,
                               !.fut[r] = "writeerror", !.settles[r] = 1]

\* callCommand(command, data), lines 440-444
callCommand(e, command, serialisable) == send(e, command, 0, serialisable)
\* subscribe(channels), lines 483-486
subscribe(e) == callCommand(e, "Subscribe", TRUE)
\* unsubscribe(channels), lines 493-496
unsubscribe(e) == callCommand(e, "Unsubscribe", TRUE)

\* the timeout callback of request r, lines 460-463
requestTimeout(e, r) ==
    LET e1 == [e EXCEPT !.timer[r] = FALSE, !.pendingRequests[e.reqID[r]] = 0]
    IN [e1 EXCEPT !.settles[r] = @ + 1,
                  !.fut[r] = IF @ = "pending" THEN "timeout" ELSE @]

\* destroy(), lines 527-540
destroy(e) ==
    LET e1 == [e EXCEPT !.alive = FALSE,
                        !.reconnectTimer = IF @ = "armed" THEN "cleared" ELSE @,
                        !.reconnectTimers = IF e.reconnectTimer = "armed" THEN @ - 1 ELSE @,
                        !.seenNotifyTokens = <<>>]
    IN socketDestroy(RejectAll(e1, "destroyed"))

\* handleData(data), lines 300-421
handleData(e, data) ==
    LET buffer == e.recv \o toString(data)
        tokens == FrameTokens(buffer)
        m == HandleTokens(e, tokens)
    IN [m EXCEPT !.recv = FrameRest(buffer),
                 !.tokens = SelectSeq(tokens, LAMBDA t : ~IsBlank(t))]

\* ------------------------------------------------------------------------
\* Initial state: the constructor has run (lines 213-237), createSocket()
\* included; the options are any the caller may pass.
\* ------------------------------------------------------------------------
Init ==
    /\ alive = TRUE
    /\ connected = FALSE
    /\ errorCount = 0
    /\ recv = <<>>
    /\ seenNotifyTokens = <<>>
    /\ pendingRequests = [id \in AllIDs |-> 0]
    /\ reconnectTimer = "unset"
    /\ reconnectDelay = 0
    /\ reconnectTimers = 0
    /\ ignoreEvents \in BOOLEAN
    /\ autoSubscribe \in BOOLEAN
    /\ socket = "connecting"
    /\ autoSubTimer = FALSE
    /\ nextReq = 1
    /\ reqID = [r \in Requests |-> 0]
    /\ fut = [r \in Requests |-> "unissued"]
    /\ futVal = [r \in Requests |-> ""]
    /\ timer = [r \in Requests |-> FALSE]
    /\ settles = [r \in Requests |-> 0]
    /\ destroyedAt = 0
    /\ streak = 0
    /\ out = <<>>
    /\ written = <<>>
    /\ lastOp = Op("construct", <<>>)
    /\ fed = <<>>
    /\ tokensOut = <<>>
    /\ listeners = {}

\* A step of the engine that is no read of the framer's test stream.
Step(e, op) ==
    /\ Becomes(e)
    /\ lastOp' = op
    /\ UNCHANGED <<fed, tokensOut, streak, listeners>>

\* The caller and the timers run between the ticks of the event loop; Node
\* emits error and close of a failed socket in one tick, so nothing runs
\* while the socket is "errored".
BetweenTicks == socket # "errored"

\* A command can be issued while the bound leaves room for it and for the
\* auto-subscribe that is already scheduled.
Room == nextReq + (IF autoSubTimer THEN 1 ELSE 0) <= MaxReq

\* ------------------------------------------------------------------------
\* Operations of the caller
\* ------------------------------------------------------------------------
\* platform.send(payload)
Send(payloadID, serialisable) ==
    /\ BetweenTicks /\ Room
    /\ Step(send(Cur, "Send", payloadID, serialisable),
            Op("send", <<>>))
    /\ UNCHANGED destroyedAt

\* platform.<CommandName>(data)
CallCommand(serialisable) ==
    /\ BetweenTicks /\ Room
    /\ Step(callCommand(Cur, "HealthCheck", serialisable),
            Op("callCommand", <<>>))
    /\ UNCHANGED destroyedAt

\* platform.subscribe(channels)
Subscribe ==
    /\ BetweenTicks /\ Room
    /\ Step(subscribe(Cur), Op("subscribe", <<>>))
    /\ UNCHANGED destroyedAt

\* platform.unsubscribe(channels)
Unsubscribe ==
    /\ BetweenTicks /\ Room
    /\ Step(unsubscribe(Cur), Op("unsubscribe", <<>>))
    /\ UNCHANGED destroyedAt

\* platform.destroy()
Destroy ==
    /\ BetweenTicks
    /\ Step(destroy(Cur), Op("destroy", <<>>))
    /\ destroyedAt' = IF destroyedAt = 0 THEN nextReq ELSE destroyedAt

\* ------------------------------------------------------------------------
\* Timers
\* ------------------------------------------------------------------------
\* The timeout of request r fires.  All request timers run for
\* RESPONSE_TIMEOUT_MS, so they fire in the order they were started.
RequestTimeout(r) ==
    /\ BetweenTicks
    /\ timer[r]
    /\ \A q \in Requests : q < r => ~timer[q]
    /\ Step(requestTimeout(Cur, r), Op("requestTimeout", <<>>))
    /\ UNCHANGED destroyedAt

\* The reconnection timer fires (lines 517-521).  Its delay is at least
\* 2666 ms: the close of the socket it replaces has been emitted by then,
\* and the auto-subscribe timer (500 ms) of that socket has fired.
ReconnectTimer ==
    /\ reconnectTimers > 0
    /\ socket = "closed"
    /\ ~autoSubTimer
    /\ Step(createSocket([Cur EXCEPT !.reconnectTimer = "unset",
                                     !.reconnectTimers = @ - 1]),
            Op("reconnectTimer", <<>>))
    /\ UNCHANGED destroyedAt

\* The auto-subscribe timer fires (lines 262-266).
AutoSubscribeTimer ==
    /\ BetweenTicks
    /\ autoSubTimer
    /\ Step(subscribe([Cur EXCEPT !.autoSubTimer = FALSE]),
            Op("autoSubscribe", <<>>))
    /\ UNCHANGED destroyedAt

\* ------------------------------------------------------------------------
\* Events of the socket
\* ------------------------------------------------------------------------
\* the 'connect' handler, lines 254-268
onConnect(e) ==
    [e EXCEPT !.socket = "open", !.connected = TRUE, !.errorCount = 0,
              !.seenNotifyTokens = <<>>,
              !.autoSubTimer = IF e.autoSubscribe THEN TRUE ELSE @]

\* the 'error' handler, lines 278-289
onError(e) ==
    LET e1 == [e EXCEPT !.socket = "errored", !.errorCount = @ + 1]
    IN IF e1.errorCount < MAX_ERRORS /\ e1.alive THEN reconnect(e1)
       ELSE IF e1.errorCount >= MAX_ERRORS THEN [e1 EXCEPT !.alive = FALSE]
       ELSE e1

\* 'connect'
SocketConnect ==
    /\ socket = "connecting"
    /\ autoSubscribe => nextReq <= MaxReq
    /\ Step(onConnect(Cur), Op("connect", <<>>))
    /\ UNCHANGED destroyedAt

\* 'timeout', lines 269-272
SocketTimeout ==
    /\ socket \in {"connecting", "open"}
    /\ Step(IF alive THEN reconnect(Cur) ELSE Cur, Op("timeout", <<>>))
    /\ UNCHANGED destroyedAt

\* 'close', lines 273-277: the peer closed an open socket, or a destroyed
\* or failed socket finished closing.
SocketClose ==
    /\ socket \in {"open", "destroyed", "errored"}
    /\ LET e == [Cur EXCEPT !.socket = "closed", !.connected = FALSE]
       IN Step(IF alive THEN reconnect(e) ELSE e, Op("close", <<>>))
    /\ UNCHANGED destroyedAt

\* 'error'
SocketError ==
    /\ socket \in {"connecting", "open"}
    /\ Step(onError(Cur), Op("error", <<>>))
    /\ UNCHANGED destroyedAt

\* 'data', line 290
SocketData(data) ==
    /\ socket = "open"
    /\ Step(handleData(Cur, data), Op("data", data))
    /\ UNCHANGED destroyedAt

\* ------------------------------------------------------------------------
\* The engine with its caller and its server
\* ------------------------------------------------------------------------
Bodies == {"ok", "fail"}
NotifyTokens == 1..(SeenCap + 1)
\* What the server sends in one read: a response to any extID, a
\* notification, the same notification twice, a frame that is no JSON.
ServerChunks ==
    {Frame(Response(id, b)) : id \in AllIDs, b \in Bodies}
    \cup {Frame(Notify(1, "info"))}
    \cup {<<JUNK>> \o CRLF}

Next ==
    \/ \E id \in CallerIDs \cup {0}, s \in BOOLEAN : Send(id, s)
    \/ \E s \in BOOLEAN : CallCommand(s)
    \/ Subscribe
    \/ Unsubscribe
    \/ Destroy
    \/ \E r \in Requests : RequestTimeout(r)
    \/ ReconnectTimer
    \/ AutoSubscribeTimer
    \/ SocketConnect
    \/ SocketTimeout
    \/ SocketClose
    \/ SocketError
    \/ \E c \in ServerChunks : SocketData(c)

Spec == Init /\ [][Next]_vars

\* ------------------------------------------------------------------------
\* The engine with a server that sends notifications: no command is issued
\* by the caller (the auto-subscribe of the connect handler still is).
\* ------------------------------------------------------------------------
\* What the server sends in one read: a notification, two notifications.
NotifyFrames == {Frame(Notify(t, l)) : t \in NotifyTokens, l \in {"info", "warn"}}
NotifyChunks ==
    NotifyFrames \cup {f \o g : f \in NotifyFrames, g \in {Frame(Notify(1, "info"))}}

NextNotify ==
    \/ Destroy
    \/ \E r \in Requests : RequestTimeout(r)
    \/ ReconnectTimer
    \/ AutoSubscribeTimer
    \/ SocketConnect
    \/ SocketTimeout
    \/ SocketClose
    \/ SocketError
    \/ \E c \in NotifyChunks : SocketData(c)

SpecNotify == Init /\ [][NextNotify]_vars

\* ------------------------------------------------------------------------
\* The framer on its own: a connected engine reads a byte stream of at most
\* MaxStream bytes, cut into chunks in every possible way.
\* ------------------------------------------------------------------------
StreamBytes ==
    {CR, LF, SP, Ch("C3"), Ch("A9"), Text(Quote("EURUSD", TRUE, TRUE, TRUE))}

RECURSIVE SeqsUpTo(_, _)
SeqsUpTo(S, n) ==
    IF n = 0 THEN {<<>>}
    ELSE LET shorter == SeqsUpTo(S, n - 1)
         IN shorter \cup {Append(q, x) : q \in shorter, x \in S}

\* The state after the first 'connect' of an engine without auto-subscribe.
InitFramer ==
    /\ alive = TRUE
    /\ connected = TRUE
    /\ errorCount = 0
    /\ recv = <<>>
    /\ seenNotifyTokens = <<>>
    /\ pendingRequests = [id \in AllIDs |-> 0]
    /\ reconnectTimer = "unset"
    /\ reconnectDelay = 0
    /\ reconnectTimers = 0
    /\ ignoreEvents \in BOOLEAN
    /\ autoSubscribe = FALSE
    /\ socket = "open"
    /\ autoSubTimer = FALSE
    /\ nextReq = 1
    /\ reqID = [r \in Requests |-> 0]
    /\ fut = [r \in Requests |-> "unissued"]
    /\ futVal = [r \in Requests |-> ""]
    /\ timer = [r \in Requests |-> FALSE]
    /\ settles = [r \in Requests |-> 0]
    /\ destroyedAt = 0
    /\ streak = 0
    /\ out = <<>>
    /\ written = <<>>
    /\ lastOp = Op("connect", <<>>)
    /\ fed = <<>>
    /\ tokensOut = <<>>
    /\ listeners = {}

\* 'data' with a chunk of the test stream
StreamData(data) ==
    /\ socket = "open"
    /\ Len(fed) + Len(data) <= MaxStream
    /\ LET e == handleData(Cur, data)
       IN /\ Becomes(e)
          /\ tokensOut' = tokensOut \o e.tokens
    /\ fed' = fed \o data
    /\ lastOp' = Op("data", data)
    /\ UNCHANGED <<destroyedAt, streak, listeners>>

NextFramer == \E c \in SeqsUpTo(StreamBytes, MaxStream) \ {<<>>} : StreamData(c)

SpecFramer == InitFramer /\ [][NextFramer]_vars

\* ------------------------------------------------------------------------
\* The engine with an endpoint that fails: the socket errors since the last
\* 'connect' are counted in streak, up to MaxStreak; the caller subscribes
\* and destroys, the server sends nothing.
\* ------------------------------------------------------------------------
Counted(e, op, n) ==
    /\ Becomes(e)
    /\ lastOp' = op
    /\ streak' = n
    /\ UNCHANGED <<fed, tokensOut, destroyedAt, listeners>>

\* 'error', counted
ConnectionError ==
    /\ socket \in {"connecting", "open"}
    /\ streak < MaxStreak
    /\ Counted(onError(Cur), Op("error", <<>>), streak + 1)

\* 'connect', which ends the streak
ConnectionEstablished ==
    /\ socket = "connecting"
    /\ autoSubscribe => nextReq <= MaxReq
    /\ Counted(onConnect(Cur), Op("connect", <<>>), 0)

NextReconnect ==
    \/ Subscribe
    \/ Destroy
    \/ \E r \in Requests : RequestTimeout(r)
    \/ ReconnectTimer
    \/ AutoSubscribeTimer
    \/ ConnectionEstablished
    \/ SocketTimeout
    \/ SocketClose
    \/ ConnectionError

SpecReconnect == Init /\ [][NextReconnect]_vars

\* ------------------------------------------------------------------------
\* The engine with a server that sends frames of every kind: the caller
\* sends commands and waits, the connection stays up.
\* ------------------------------------------------------------------------
\* 't' arrays: the symbol is "EURUSD", "eurusd", the empty string or no
\* string at all; bid and ask are numbers or not; one array is too short.
QuoteValues ==
    {Quote(sym, TRUE, TRUE, TRUE) : sym \in {"EURUSD", "eurusd", ""}}
    \cup {Quote("EURUSD", TRUE, FALSE, TRUE), Quote("EURUSD", TRUE, TRUE, FALSE),
          Quote("", FALSE, TRUE, TRUE)}
    \cup {[Quote("EURUSD", TRUE, TRUE, FALSE) EXCEPT !.len = 3]}
\* objects with an event field, with and without login, symbol, group, extID,
\* and one whose data has the symbol ""
EventValues ==
    {EventObject("trade:event", l, sy, g, id) :
        l \in {"", "42"}, sy \in {"", "EURUSD"}, g \in {"", "demo"}, id \in {0}}
    \cup {EventObject("trade:event", "42", "", "", id) : id \in CallerIDs}
    \cup {EventWithKeys("trade:event", "42", "", "", {"login", "symbol"})}
\* the other values: notifications, reindex lists, arrays and objects that
\* no rule matches, a scalar
OtherValues ==
    {Notify(1, "info"), [Notify(2, "info") EXCEPT !.len = 7],
     Reindex("sr", 2), Reindex("sc", 2), Reindex("sr", 3), Reindex("xx", 2),
     Response(0, "ok"), Scalar}
ResponseValues == {Response(id, "ok") : id \in AllIDs}

\* tokens that JSON.parse rejects after repair: "{not json", and a JSON
\* text with such a run before it
BadTokens == {<<JUNK>>, <<JUNK, SP, Text(Response(1, "ok"))>>}
\* what a bad token is read together with: nothing, or a frame
Neighbours ==
    {<<>>, Frame(Quote("EURUSD", TRUE, TRUE, TRUE)), Frame(Response(1, "ok"))}

\* the reads that hold a bad token: <<what precedes it, the token, what follows>>
BadReads ==
    {<<a, <<JUNK>>, b>> : a \in Neighbours, b \in Neighbours}
    \cup {<<<<>>, bad, <<>>>> : bad \in BadTokens}

InboundChunks ==
    {Frame(v) : v \in QuoteValues \cup EventValues \cup OtherValues \cup ResponseValues}
    \cup {<<TextTrailingComma(Reindex("sr", 2))>> \o CRLF}
    \cup {t[1] \o t[2] \o CRLF \o t[3] : t \in BadReads}

NextInbound ==
    \/ \E id \in CallerIDs \cup {0} : Send(id, TRUE)
    \/ \E c \in InboundChunks : SocketData(c)

\* from the state after the first 'connect'
SpecInbound == InitFramer /\ [][NextInbound]_vars

\* ========================================================================
\* Properties
\* ========================================================================
Completed(r) == fut[r] \notin {"unissued", "pending"}
\* request r was registered in pendingRequests by send()
Accepted(r) == fut[r] \in {"pending", "resolved", "timeout", "lost", "destroyed"}
IsCommandStep == lastOp'.op \in {"send", "callCommand", "subscribe", "unsubscribe"}

\* C1: every request that send() registered is completed at most once, and
\* then by a response, by its timer or by a sweep of reconnect / destroy;
\* once it is completed no timer of it is armed and no entry of the
\* pending table holds it, so that no later response, timer or sweep
\* touches its promise again.
C1_ExactlyOnce ==
    \A r \in Requests :
        /\ settles[r] <= 1
        /\ Completed(r) <=> settles[r] = 1
        /\ Accepted(r) /\ Completed(r)
              => fut[r] \in {"resolved", "timeout", "lost", "destroyed"}
        /\ timer[r] => fut[r] = "pending"
        /\ \A id \in AllIDs : pendingRequests[id] = r => fut[r] = "pending"

\* A response arrives for the extID of a request that its timer completed.
C1_Witness ==
    \E r \in Requests, b \in Bodies :
        /\ fut[r] = "timeout"
        /\ settles[r] = 1
        /\ lastOp = Op("data", Frame(Response(reqID[r], b)))

\* C2: a response carrying extID X, read as one frame: when X has an entry,
\* the promise of that entry is fulfilled with the response, its timer is
\* cleared and the entry is deleted; when X has none, the response goes to
\* emit() under the topic X and the table and all promises stay as they are.
C2_ResponseDispatch ==
    [][\A id \in AllIDs, b \in Bodies :
          (lastOp' = Op("data", Frame(Response(id, b))) /\ recv = <<>>)
          => LET r == pendingRequests[id]
             IN IF r # 0
                THEN /\ fut'[r] = "resolved"
                     /\ futVal'[r] = b
                     /\ ~timer'[r]
                     /\ pendingRequests' = [pendingRequests EXCEPT ![id] = 0]
                ELSE /\ out' = IF ignoreEvents THEN <<>>
                               ELSE <<[topic |-> IdTopic(id), data |-> Response(id, b)]>>
                     /\ UNCHANGED <<pendingRequests, fut, futVal, timer>>]_vars

\* A request was fulfilled with the body of the response read last.
C2_Witness ==
    \E r \in Requests :
        /\ fut[r] = "resolved"
        /\ futVal[r] = "fail"
        /\ lastOp = Op("data", Frame(Response(reqID[r], "fail")))
        /\ out = <<>>
        /\ pendingRequests[reqID[r]] = 0

\* C3: a command issued while connected is false is rejected at once with
\* the not-connected error; the pending table and the timers stay as they
\* are and socket.write is not called.
C3_NotConnected ==
    [][(IsCommandStep /\ ~connected)
          => /\ fut'[nextReq] = "notconnected"
             /\ written' = <<>>
             /\ UNCHANGED <<pendingRequests, timer>>]_vars

\* subscribe() was rejected as not connected.
C3_Witness ==
    /\ lastOp.op = "subscribe"
    /\ ~connected
    /\ fut[nextReq - 1] = "notconnected"
    /\ written = <<>>

\* the timer of request r fires in this step
TimerFires(r) == lastOp'.op = "requestTimeout" /\ timer[r] /\ ~timer'[r]

\* C4: when the timer of an accepted request fires, the request is rejected
\* with the timeout error and its entry is gone; connected, the socket and
\* the entries of all other requests stay as they are.
C4_TimeoutOnlyOwnEntry ==
    [][\A r \in Requests :
          TimerFires(r)
          => /\ fut'[r] = "timeout"
             /\ \A id \in AllIDs : pendingRequests'[id] # r
             /\ UNCHANGED <<connected, socket, alive>>
             /\ \A id \in AllIDs :
                   pendingRequests[id] \notin {0, r}
                   => pendingRequests'[id] = pendingRequests[id]]_vars

\* the same, for a request whose extID no other unfinished request carries
C4_TimeoutUniqueID ==
    [][\A r \in Requests :
          (TimerFires(r)
             /\ \A q \in Requests \ {r} : fut[q] = "pending" => reqID[q] # reqID[r])
          => /\ fut'[r] = "timeout"
             /\ \A id \in AllIDs : pendingRequests'[id] # r
             /\ UNCHANGED <<connected, socket, alive>>
             /\ \A id \in AllIDs :
                   pendingRequests[id] \notin {0, r}
                   => pendingRequests'[id] = pendingRequests[id]]_vars

IsLossStep == lastOp'.op \in {"close", "timeout", "error"}

\* C5: a close, timeout or error event that arrives while connected is
\* true rejects every unfinished request with the connection-lost error,
\* disarms its timer and leaves the pending table empty.
C5_LossRejectsAll ==
    [][(IsLossStep /\ connected)
          => /\ \A r \in Requests :
                   fut[r] = "pending" => fut'[r] = "lost" /\ ~timer'[r]
             /\ \A id \in AllIDs : pendingRequests'[id] = 0]_vars

\* C6: destroy() rejects every unfinished request with the destroyed error
\* and empties the pending table, and no request issued before destroy()
\* is completed at any later time.
C6_DestroyFailsAll ==
    [][/\ lastOp'.op = "destroy"
          => /\ \A r \in Requests : fut[r] = "pending" => fut'[r] = "destroyed"
             /\ \A id \in AllIDs : pendingRequests'[id] = 0
       /\ destroyedAt # 0
          => \A r \in Requests : r < destroyedAt => fut'[r] = fut[r]]_vars

\* the part of C6 that the code does keep: destroy() rejects every request
\* that has an entry and empties the table
C6_DestroySweepsTable ==
    [][lastOp'.op = "destroy"
          => /\ \A id \in AllIDs :
                   pendingRequests[id] # 0 => fut'[pendingRequests[id]] = "destroyed"
             /\ \A id \in AllIDs : pendingRequests'[id] = 0]_vars

\* C7: after destroy() the engine stays inactive, no reconnection timer is
\* armed, no socket is created, and a further destroy() changes nothing.
C7_DestroyTerminal ==
    [][destroyedAt # 0
          => /\ ~alive /\ ~alive'
             /\ reconnectTimer' # "armed"
             /\ socket' # "connecting"
             /\ lastOp'.op = "destroy" => UNCHANGED engine]_vars

\* the part of C7 that the code does keep
C7_DestroyStops ==
    [][destroyedAt # 0
          => /\ ~alive /\ ~alive'
             /\ reconnectTimer' # "armed"
             /\ socket' # "connecting"]_vars

\* ------------------------------------------------------------------------
\* The engine under the scheduling the event loop guarantees: a timer that
\* is armed fires, and the close of a failed socket, which Node emits in
\* the tick of its error, is emitted.
\* ------------------------------------------------------------------------
CloseOfFailedSocket == socket = "errored" /\ SocketClose

SpecLive ==
    /\ Spec
    /\ SF_vars(\E r \in Requests : RequestTimeout(r))
    /\ WF_vars(CloseOfFailedSocket)

\* C8: every promise that send() returns is settled in the end, by a
\* response, by its timer or by a sweep, also when the connection stays up
\* and the server never answers.
C8_EveryFutureCompletes ==
    \A r \in Requests : (fut[r] = "pending") ~> Completed(r)

\* A request was completed by its timer on a connection that is still up.
C8_Witness ==
    \E r \in Requests :
        /\ fut[r] = "timeout"
        /\ lastOp.op = "requestTimeout"
        /\ connected /\ socket = "open"

\* The tokens the stream holds when it is decoded as a whole: its segments
\* that end in a delimiter, those that the blank test of line 311 drops
\* left out.
Segments(stream) == SelectSeq(FrameTokens(toString(stream)), LAMBDA t : ~IsBlank(t))

\* C9: however the byte stream read so far was cut into chunks, the tokens
\* handed to the parser so far are the delimiter-terminated segments of
\* the stream, in order ("non-empty" read as the blank test of the code
\* reads it), and nothing behind the last delimiter is among them.
C9_CutIndependent == tokensOut = Segments(fed)

\* the same for streams of ASCII bytes
C9_CutIndependentAscii ==
    (\A i \in 1..Len(fed) : fed[i].ch \notin {"C3", "A9"}) => tokensOut = Segments(fed)

Levels == {"info", "warn"}
OnTopic(log, topic) == SelectSeq(log, LAMBDA p : p.topic = topic)

\* C10: a notification whose token is in seenNotifyTokens publishes nothing
\* and leaves the cache as it is; two notifications with one token read in
\* sequence publish once on the topic notify (none when the token was in
\* the cache before them).
C10_NoRepublish ==
    [][\A t \in NotifyTokens, l \in Levels :
          /\ (lastOp' = Op("data", Frame(Notify(t, l))) /\ Has(seenNotifyTokens, t))
             => out' = <<>> /\ seenNotifyTokens' = seenNotifyTokens
          /\ (lastOp' = Op("data", Frame(Notify(t, l)) \o Frame(Notify(t, "info")))
                /\ ~ignoreEvents)
             => Len(OnTopic(out', Topic("notify"))) =
                   IF Has(seenNotifyTokens, t) THEN 0 ELSE 1]_vars

\* Two notifications with the token 1 were read in one chunk and the first
\* alone was published, on notify and on notify:warn.
C10_Witness ==
    /\ lastOp = Op("data", Frame(Notify(1, "warn")) \o Frame(Notify(1, "info")))
    /\ ~ignoreEvents
    /\ out = <<[topic |-> Topic("notify"), data |-> Notify(1, "warn")],
               [topic |-> SubTopic("notify", "warn"), data |-> Notify(1, "warn")]>>
    /\ Has(seenNotifyTokens, 1)

\* the last n elements of a sequence
LastN(seq, n) == IF Len(seq) <= n THEN seq ELSE SubSeq(seq, Len(seq) - n + 1, Len(seq))
NoRepeat(seq) == \A i, j \in 1..Len(seq) : seq[i] = seq[j] => i = j

\* C11: the dedup cache never holds more than the cap and holds no token
\* twice; a notification with a token that is not in the cache appends the
\* token and, when the cache was full, removes the token inserted first,
\* so that the cache holds the cap tokens inserted last, in insertion
\* order, and the removed one counts as new again.
C11_EvictOldest ==
    [][/\ Len(seenNotifyTokens') <= SeenCap
       /\ NoRepeat(seenNotifyTokens')
       /\ \A t \in NotifyTokens, l \in Levels :
             (lastOp' = Op("data", Frame(Notify(t, l))) /\ ~Has(seenNotifyTokens, t))
             => /\ seenNotifyTokens' = LastN(Append(seenNotifyTokens, t), SeenCap)
                /\ Len(seenNotifyTokens) = SeenCap
                      => /\ ~Has(seenNotifyTokens', seenNotifyTokens[1])
                         /\ \A i \in 2..SeenCap : Has(seenNotifyTokens', seenNotifyTokens[i])]_vars

\* After cap + 1 distinct tokens the one inserted first was evicted: it
\* arrives again and is published as new, and the cache holds the cap
\* tokens inserted last.
C11_Witness ==
    /\ lastOp = Op("data", Frame(Notify(1, "info")))
    /\ ~ignoreEvents
    /\ Len(OnTopic(out, Topic("notify"))) = 1
    /\ Len(seenNotifyTokens) = SeenCap
    /\ seenNotifyTokens[SeenCap] = 1
    /\ seenNotifyTokens[1] = SeenCap + 1

\* a reconnection is scheduled in this step
Schedules == reconnectTimers' > reconnectTimers

\* C12: the reconnection that the k-th socket error in a row schedules is
\* delayed by min(4000 * 1.5^(k-1), 30000) ms, which for k = 1..5 grows
\* with k, and no delay exceeds 30000 ms.
C12_BackoffGrows ==
    [][(lastOp'.op = "error" /\ Schedules)
          => /\ reconnectDelay' = Delay(streak')
             /\ reconnectDelay' <= 3 * MAX_RECONNECT_DELAY_MS]_vars

\* what the code does keep: the delay is the formula at errorCount, and
\* no delay exceeds the cap
C12_DelayOfErrorCount ==
    [][Schedules
          => /\ reconnectDelay' = Delay(errorCount')
             /\ reconnectDelay' <= 3 * MAX_RECONNECT_DELAY_MS]_vars

\* C13: from the MAX_ERRORS-th socket error in a row on, no reconnection is
\* scheduled or pending, connected stays false and every command is
\* rejected as not connected.
C13_CircuitBreaker ==
    [][(streak >= MAX_ERRORS \/ streak' >= MAX_ERRORS)
          => /\ reconnectTimers' = 0
             /\ ~connected'
             /\ IsCommandStep => fut'[nextReq] = "notconnected"]_vars

\* C14: a socket error adds one to errorCount, 'connect' sets it to zero,
\* and no other step changes it.
C14_ErrorCountFrame ==
    [][/\ lastOp'.op = "error" => errorCount' = errorCount + 1
       /\ lastOp'.op = "connect" => errorCount' = 0
       /\ lastOp'.op \notin {"error", "connect"} => errorCount' = errorCount]_vars

\* what the code does keep: errorCount counts the errors of the current
\* socket
C14_ErrorCountOfSocket ==
    [][/\ lastOp'.op = "error" => errorCount' = errorCount + 1
       /\ lastOp'.op \in {"connect", "reconnectTimer"} => errorCount' = 0
       /\ lastOp'.op \notin {"error", "connect", "reconnectTimer"}
             => errorCount' = errorCount]_vars

\* C15: at most one reconnection timer is pending; one is started only by
\* a close, error or timeout event of an engine that is alive, was not
\* destroyed and has none pending; such an event arriving while one is
\* pending leaves the timer and its delay as they are.
C15_OneReconnectPending ==
    [][/\ reconnectTimers' <= 1
       /\ Schedules => IsLossStep /\ alive /\ destroyedAt = 0 /\ reconnectTimers = 0
       /\ (IsLossStep /\ reconnectTimers = 1)
             => reconnectTimers' = 1 /\ reconnectDelay' = reconnectDelay
       /\ destroyedAt # 0 => reconnectTimers' = 0]_vars

\* The close of a failed socket arrived while the reconnection that its
\* error scheduled was pending.
C15_Witness ==
    /\ lastOp.op = "close"
    /\ socket = "closed"
    /\ errorCount = 1
    /\ reconnectTimers = 1
    /\ reconnectTimer = "armed"

\* C16: a response carrying extID X, read as one frame by an engine that
\* does not suppress events, is emitted under the topic X.
C16_ResponseEmittedByID ==
    [][\A id \in AllIDs, b \in Bodies :
          (lastOp' = Op("data", Frame(Response(id, b))) /\ recv = <<>> /\ ~ignoreEvents)
          => Has(out', [topic |-> IdTopic(id), data |-> Response(id, b)])]_vars

\* C17: an engine constructed with ignoreEvents never calls emitter.emit,
\* whatever it reads, and a response whose extID has an entry still
\* fulfils the promise of that entry.
C17_EventsSuppressed ==
    [][ignoreEvents
          => /\ out' = <<>>
             /\ \A v \in ResponseValues :
                   (lastOp' = Op("data", Frame(v)) /\ pendingRequests[v.extID] # 0)
                   => /\ fut'[pendingRequests[v.extID]] = "resolved"
                      /\ futVal'[pendingRequests[v.extID]] = v.body]_vars

\* With events suppressed, a response fulfilled its request and nothing
\* was emitted.
C17_Witness ==
    \E r \in Requests :
        /\ ignoreEvents
        /\ fut[r] = "resolved"
        /\ lastOp = Op("data", Frame(Response(reqID[r], "ok")))
        /\ out = <<>>

\* the fields of an engine record, in the order of engine
EngineOf(e) ==
    <<e.alive, e.connected, e.errorCount, e.recv, e.seenNotifyTokens,
      e.pendingRequests, e.reconnectTimer, e.reconnectDelay, e.reconnectTimers,
      e.ignoreEvents, e.autoSubscribe, e.socket, e.autoSubTimer, e.nextReq, e.reqID,
      e.fut, e.futVal, e.timer, e.settles>>

\* C18: a read that holds a token JSON.parse rejects, alone or between
\* other frames, has the effect of the same read without that token:
\* the same emits, the same engine state; read alone it changes nothing.
C18_BadTokenDropped ==
    [][\A t \in BadReads :
          lastOp' = Op("data", t[1] \o t[2] \o CRLF \o t[3])
          => LET e == handleData(Cur, t[1] \o t[3])
             IN /\ out' = e.out
                /\ engine' = EngineOf(e)
                /\ (t[1] = <<>> /\ t[3] = <<>>) => out' = <<>> /\ UNCHANGED engine]_vars

\* A response, a bad token and a quote were read in one chunk: the
\* response fulfilled its request, the quote was published, and the
\* connection is up.
C18_Witness ==
    \E r \in Requests :
        /\ lastOp = Op("data", Frame(Response(1, "ok")) \o <<JUNK>> \o CRLF
                                  \o Frame(Quote("EURUSD", TRUE, TRUE, TRUE)))
        /\ reqID[r] = 1 /\ fut[r] = "resolved"
        /\ ~ignoreEvents
        /\ Len(out) = 2
        /\ connected /\ socket = "open"

\* C19: an object with an event field and an extID is handled as an event:
\* it is emitted under its event name first and under no extID, and the
\* pending table, the promises and the timers stay as they are.
C19_EventBeforeResponse ==
    [][\A v \in EventValues :
          (lastOp' = Op("data", Frame(v)) /\ v.extID # 0)
          => /\ UNCHANGED <<pendingRequests, fut, futVal, timer, settles>>
             /\ ~ignoreEvents => out' # <<>> /\ out'[1].topic = Topic(v.event)
             /\ \A i \in 1..Len(out') : out'[i].topic.id = 0]_vars

\* An event carrying the extID of a pending request was read: it was
\* emitted under trade:event and the request is still pending.
C19_Witness ==
    \E r \in Requests :
        /\ lastOp = Op("data", Frame(EventObject("trade:event", "42", "", "", 1)))
        /\ pendingRequests[1] = r /\ fut[r] = "pending" /\ timer[r]
        /\ ~ignoreEvents
        /\ out[1].topic = Topic("trade:event")

IsValidQuote(q) ==
    q.len >= 4 /\ q.symbolIsString /\ q.symbol # "" /\ q.bidIsNumber /\ q.askIsNumber
QuoteEmits(q) ==
    <<[topic |-> Topic("quote"), data |-> q],
      [topic |-> SubTopic("quote", toUpperCase(q.symbol)), data |-> q]>>

\* C20: a 't' array is emitted, once under quote and once under
\* quote:SYMBOL, exactly when its symbol is a string that is not empty
\* and its bid and ask are numbers; any other 't' array emits nothing.
C20_QuoteIffValid ==
    [][\A q \in QuoteValues :
          (lastOp' = Op("data", Frame(q)) /\ ~ignoreEvents)
          => out' = IF IsValidQuote(q) THEN QuoteEmits(q) ELSE <<>>]_vars

\* what the code does keep: the same with the empty string as a symbol
\* taken for valid
C20_QuoteIffTyped ==
    [][\A q \in QuoteValues :
          (lastOp' = Op("data", Frame(q)) /\ ~ignoreEvents)
          => out' = IF q.len >= 4 /\ q.symbolIsString /\ q.bidIsNumber /\ q.askIsNumber
                    THEN QuoteEmits(q) ELSE <<>>]_vars

\* The state C21 is about is not reached: errorCount is reset by every
\* createSocket and a socket fails once, so the counter stays below
\* MAX_ERRORS and only destroy() makes the engine inactive.
BreakerNeverTrips ==
    /\ errorCount <= 1
    /\ ~alive => destroyedAt # 0

\* C22: when the reconnection timer fires and createSocket runs, the
\* pending table is empty, every request issued before is completed, and
\* the dedup cache is empty.
C22_RestartStartsClean ==
    [][lastOp'.op = "reconnectTimer"
          => /\ \A id \in AllIDs : pendingRequests'[id] = 0
             /\ \A r \in Requests : fut'[r] # "pending"
             /\ seenNotifyTokens' = <<>>]_vars

\* what the code does keep: the dedup cache is empty after the restart
C22_RestartClearsCache ==
    [][lastOp'.op = "reconnectTimer" => seenNotifyTokens' = <<>>]_vars

\* C23: between the ticks of the event loop connected is true only while
\* the socket is open, and a command issued while the socket is not open
\* is rejected as not connected, registers nothing and writes nothing.
C23_ConnectedOnlyWhileOpen ==
    [][/\ (BetweenTicks' /\ connected') => socket' = "open"
       /\ (IsCommandStep /\ socket # "open")
             => /\ fut'[nextReq] = "notconnected"
                /\ written' = <<>>
                /\ UNCHANGED <<pendingRequests, timer>>]_vars

\* what the code does keep: connected is true only on a socket that
\* 'connect' was emitted on and 'close' was not yet
C23_ConnectedUntilClose ==
    connected => socket \in {"open", "errored", "destroyed"}

\* C24: every request that send() accepted and that is not completed is
\* the request of the entry under its extID.
C24_OwnEntry ==
    \A r \in Requests : fut[r] = "pending" => pendingRequests[reqID[r]] = r

\* what the code does keep: the same for a request whose extID no other
\* request carries
C24_OwnEntryUniqueID ==
    \A r \in Requests :
        (fut[r] = "pending" /\ \A q \in Requests \ {r} : reqID[q] # reqID[r])
        => pendingRequests[reqID[r]] = r

\* C28: every delay that reconnect() hands to setTimeout is at least
\* RECONNECT_DELAY_MS and at most MAX_RECONNECT_DELAY_MS.
C28_DelayInRange ==
    [][Schedules
          => /\ reconnectDelay' >= 3 * RECONNECT_DELAY_MS
             /\ reconnectDelay' <= 3 * MAX_RECONNECT_DELAY_MS]_vars

\* what the code does keep: the delay is 2666 2/3 ms at least
C28_DelayAboveTwoThirds ==
    [][Schedules
          => /\ reconnectDelay' >= 2 * RECONNECT_DELAY_MS
             /\ reconnectDelay' <= 3 * MAX_RECONNECT_DELAY_MS]_vars
\* how often emitter.emit was called with topic t in the step
Emits(t) == Cardinality({i \in 1..Len(out') : out'[i].topic = t})

\* the emits of reading event v, given the keys that count as present
PublishedFor(v, keys) ==
    /\ Len(out') = 1 + Cardinality(keys)
    /\ out'[1].topic = Topic(v.event)
    /\ Emits(Topic(v.event)) = 1
    /\ \A k \in {"login", "symbol", "group"} :
          Emits(SubTopic(v.event, DataValue(v, k))) = IF k \in keys THEN 1 ELSE 0
    /\ \A i \in 1..Len(out') : out'[i].data = EventPayload(v)

\* C27: reading a domain event publishes it once under its event name
\* first, then once under event:<value> for each of the keys login, symbol
\* and group that data has, and under no secondary topic for a key that
\* data does not have.
C27_SecondaryForPresentKeys ==
    [][\A v \in EventValues :
          (lastOp' = Op("data", Frame(v)) /\ ~ignoreEvents)
          => PublishedFor(v, v.keys)]_vars

\* C27 amended: the secondary topics are those of the keys whose value is
\* truthy; a key that data has with a falsy value ("", 0, null) gets none.
C27_SecondaryForTruthyKeys ==
    [][\A v \in EventValues :
          (lastOp' = Op("data", Frame(v)) /\ ~ignoreEvents)
          => PublishedFor(v, {k \in v.keys : Truthy(DataValue(v, k))})]_vars

\* An event with login and group and no symbol was read: three emits, in
\* the order trade:event, trade:event:42, trade:event:demo.
C27_Witness ==
    /\ lastOp = Op("data", Frame(EventObject("trade:event", "42", "", "demo", 0)))
    /\ ~ignoreEvents
    /\ Len(out) = 3
    /\ out[1].topic = Topic("trade:event")
    /\ out[2].topic = SubTopic("trade:event", "42")
    /\ out[3].topic = SubTopic("trade:event", "demo")

\* the Subscribe command of the auto-subscribe, as send() writes it
AutoSubscribeWrite == [command |-> "Subscribe", extID |-> generateExtID(nextReq)]

\* C26: every connect event of an engine with channels schedules the
\* auto-subscribe, an engine without channels never schedules one; when
\* the delay elapses and the connection is still up (the socket is open)
\* exactly one Subscribe is written and registered, and when the
\* connection was lost before (the socket is torn down or closed) nothing
\* is written and no pending entry is created.
C26_AutoSubscribe ==
    [][/\ lastOp'.op = "connect" => (autoSubTimer' <=> autoSubscribe)
       /\ ~autoSubscribe => ~autoSubTimer' /\ lastOp'.op # "autoSubscribe"
       /\ lastOp'.op = "autoSubscribe"
          => /\ ~autoSubTimer'
             /\ IF socket = "open"
                THEN /\ written' = <<AutoSubscribeWrite>>
                     /\ pendingRequests'[generateExtID(nextReq)] = nextReq
                     /\ fut'[nextReq] = "pending"
                ELSE /\ written' = <<>>
                     /\ UNCHANGED <<pendingRequests, timer>>
                     /\ fut'[nextReq] = "notconnected"]_vars

\* The same with this.connected in the place of the state of the socket:
\* what the code does.
C26_AutoSubscribeByFlag ==
    [][/\ lastOp'.op = "connect" => (autoSubTimer' <=> autoSubscribe)
       /\ ~autoSubscribe => ~autoSubTimer' /\ lastOp'.op # "autoSubscribe"
       /\ lastOp'.op = "autoSubscribe"
          => /\ ~autoSubTimer'
             /\ IF connected
                THEN /\ written' = <<AutoSubscribeWrite>>
                     /\ pendingRequests'[generateExtID(nextReq)] = nextReq
                     /\ fut'[nextReq] = "pending"
                ELSE /\ written' = <<>>
                     /\ UNCHANGED <<pendingRequests, timer>>
                     /\ fut'[nextReq] = "notconnected"]_vars

\* The peer closed the connection before the delay elapsed: the
\* auto-subscribe was rejected and wrote nothing.
C26_LostBeforeDelay ==
    /\ lastOp.op = "autoSubscribe"
    /\ socket = "closed"
    /\ written = <<>>
    /\ \E r \in Requests : fut[r] = "notconnected"

\* ------------------------------------------------------------------------
\* The failing endpoint under fair scheduling: a timer that is due fires,
\* and a socket that failed or was destroyed emits its close event.
\* ------------------------------------------------------------------------
CloseOfTornDownSocket == socket \in {"errored", "destroyed"} /\ SocketClose

SpecReconnectLive ==
    /\ SpecReconnect
    /\ WF_vars(ReconnectTimer)
    /\ WF_vars(AutoSubscribeTimer)
    /\ WF_vars(CloseOfTornDownSocket)

\* the connection closed, failed or timed out, and destroy() was not called
ConnectionLost ==
    /\ socket \in {"errored", "destroyed", "closed"}
    /\ alive
    /\ destroyedAt = 0

ION_RECONNECT_DELAY_MS == 4000

\* createSocket(), lines 47-114, up to socket.connect()
IONcreateSocket(e) ==
    [e EXCEPT !.errorCount = 0, !.connected = FALSE, !.alive = TRUE,
              !.recv = <<>>, !.socket = "connecting"]

\* reconnect(), lines 153-167
IONreconnect(e) ==
    LET e1 == socketDestroy(e)
    IN IF e1.reconnectTimer = "unset"
       THEN [e1 EXCEPT !.reconnectTimer = "armed",
                       !.reconnectTimers = @ + 1,
                       !.reconnectDelay = 3 * ION_RECONNECT_DELAY_MS]
       ELSE e1

\* destroy(), lines 169-173
IONdestroy(e) == socketDestroy([e EXCEPT !.alive = FALSE])

\* send(data), lines 121-151, for the request r = e.nextReq
IONsend(e, payloadID, serialisable) ==
    LET r == e.nextReq
        extID == IF payloadID = 0 THEN generateExtID(r) ELSE payloadID
        e0 == [e EXCEPT !.nextReq = r + 1, !.reqID[r] = extID, !.fut[r] = "pending"]
    IN IF ~e.connected
       THEN [e0 EXCEPT !.fut[r] = "notconnected", !.settles[r] = 1]
       ELSE IF ~serialisable
       THEN [e0 EXCEPT !.fut[r] = "writeerror", !.settles[r] = 1]
       ELSE [e0 EXCEPT !.timer[r] = TRUE,
                       !.written = Append(@, [command |-> "command", extID |-> extID])]

\* send() registered a listener: the write returned (lines 132-144)
IONlistens(e, serialisable) == e.connected /\ serialisable

\* the timeout callback of request r, lines 135-138
IONrequestTimeout(e, r) ==
    [e EXCEPT !.timer[r] = FALSE,
              !.settles[r] = @ + 1,
              !.fut[r] = IF @ = "pending" THEN "timeout" ELSE @]

\* emitter.emit(data.extID, data), line 104, with the once-listeners of
\* send() (lines 140-143); m is [e: the client, ls: the listeners]
IONemit(m, parsed) ==
    LET hit == {r \in m.ls : m.e.reqID[r] = parsed.extID}
    IN [e |-> [m.e EXCEPT
                  !.out = Append(@, [topic |-> IdTopic(parsed.extID), data |-> parsed]),
                  !.timer = [r \in Requests |-> IF r \in hit THEN FALSE ELSE @[r]],
                  !.settles = [r \in Requests |-> IF r \in hit THEN @[r] + 1 ELSE @[r]],
                  !.fut = [r \in Requests |->
                              IF r \in hit /\ @[r] = "pending" THEN "resolved" ELSE @[r]],
                  !.futVal = [r \in Requests |->
                                 IF r \in hit /\ m.e.fut[r] = "pending"
                                 THEN parsed.body ELSE @[r]]],
        ls |-> m.ls \ hit]

\* one token of the 'data' handler, lines 91-106
IONhandleToken(m, token) ==
    IF Len(token) = 0 THEN m
    ELSE LET cleaned == SelectSeq(token, LAMBDA c : c.ch \notin {"CR", "LF"})
         IN IF ParseOk(cleaned) /\ ParseValue(cleaned).extID # 0
            THEN IONemit(m, ParseValue(cleaned))
            ELSE m

RECURSIVE IONhandleTokens(_, _)
IONhandleTokens(m, tokens) ==
    IF tokens = <<>> THEN m
    ELSE IONhandleTokens(IONhandleToken(m, Head(tokens)), Tail(tokens))

\* the 'data' handler, lines 77-107
IONhandleData(e, ls, data) ==
    LET buffer == e.recv \o toString(data)
        m == IONhandleTokens([e |-> e, ls |-> ls], FrameTokens(buffer))
    IN [m EXCEPT !.e.recv = FrameRest(buffer)]

IONInit ==
    /\ alive = TRUE
    /\ connected = FALSE
    /\ errorCount = 0
    /\ recv = <<>>
    /\ seenNotifyTokens = <<>>
    /\ pendingRequests = [id \in AllIDs |-> 0]
    /\ reconnectTimer = "unset"
    /\ reconnectDelay = 0
    /\ reconnectTimers = 0
    /\ ignoreEvents \in BOOLEAN
    /\ autoSubscribe = FALSE
    /\ socket = "connecting"
    /\ autoSubTimer = FALSE
    /\ nextReq = 1
    /\ reqID = [r \in Requests |-> 0]
    /\ fut = [r \in Requests |-> "unissued"]
    /\ futVal = [r \in Requests |-> ""]
    /\ timer = [r \in Requests |-> FALSE]
    /\ settles = [r \in Requests |-> 0]
    /\ destroyedAt = 0
    /\ streak = 0
    /\ out = <<>>
    /\ written = <<>>
    /\ lastOp = Op("construct", <<>>)
    /\ fed = <<>>
    /\ tokensOut = <<>>
    /\ listeners = {}

IONStep(e, ls, op) ==
    /\ Becomes(e)
    /\ listeners' = ls
    /\ lastOp' = op
    /\ UNCHANGED <<fed, tokensOut, streak>>

\* platform.send(data) and platform.<CommandName>(data)
IONSend(payloadID, serialisable) ==
    /\ BetweenTicks
    /\ nextReq <= MaxReq
    /\ IONStep(IONsend(Cur, payloadID, serialisable),
               IF IONlistens(Cur, serialisable) THEN listeners \cup {nextReq}
               ELSE listeners,
               Op("send", <<>>))
    /\ UNCHANGED destroyedAt

\* platform.destroy()
IONDestroy ==
    /\ BetweenTicks
    /\ IONStep(IONdestroy(Cur), listeners, Op("destroy", <<>>))
    /\ destroyedAt' = IF destroyedAt = 0 THEN nextReq ELSE destroyedAt

\* The timeout of request r fires; the timers fire in the order they were
\* started.
IONRequestTimeout(r) ==
    /\ BetweenTicks
    /\ timer[r]
    /\ \A q \in Requests : q < r => ~timer[q]
    /\ IONStep(IONrequestTimeout(Cur, r), listeners, Op("requestTimeout", <<>>))
    /\ UNCHANGED destroyedAt

\* The reconnection timer fires (lines 157-162), 4000 ms after reconnect()
\* destroyed the socket: its close has been emitted by then.
IONReconnectTimer ==
    /\ reconnectTimers > 0
    /\ socket = "closed"
    /\ IONStep(IONcreateSocket([Cur EXCEPT !.reconnectTimer = "unset",
                                           !.reconnectTimers = @ - 1]),
               listeners, Op("reconnectTimer", <<>>))
    /\ UNCHANGED destroyedAt

\* 'connect', lines 60-63
IONSocketConnect ==
    /\ socket = "connecting"
    /\ IONStep([Cur EXCEPT !.socket = "open", !.connected = TRUE],
               listeners, Op("connect", <<>>))
    /\ UNCHANGED destroyedAt

\* 'timeout', lines 64-67
IONSocketTimeout ==
    /\ socket \in {"connecting", "open"}
    /\ IONStep(IF alive THEN IONreconnect(Cur) ELSE Cur, listeners, Op("timeout", <<>>))
    /\ UNCHANGED destroyedAt

\* 'close', lines 68-72
IONSocketClose ==
    /\ socket \in {"open", "destroyed", "errored"}
    /\ LET e == [Cur EXCEPT !.socket = "closed", !.connected = FALSE]
       IN IONStep(IF alive THEN IONreconnect(e) ELSE e, listeners, Op("close", <<>>))
    /\ UNCHANGED destroyedAt

\* 'error', lines 73-76
IONSocketError ==
    /\ socket \in {"connecting", "open"}
    /\ LET e == [Cur EXCEPT !.socket = "errored"]
       IN IONStep(IF alive THEN IONreconnect(e) ELSE e, listeners, Op("error", <<>>))
    /\ UNCHANGED destroyedAt

\* 'data', lines 77-107
IONSocketData(data) ==
    /\ socket = "open"
    /\ LET m == IONhandleData(Cur, listeners, data)
       IN IONStep(m.e, m.ls, Op("data", data))
    /\ UNCHANGED destroyedAt

\* What the server sends in one read: a response, or two.
IONChunks ==
    {Frame(Response(id, "ok")) : id \in AllIDs}
    \cup {Frame(Response(1, "ok")) \o Frame(Response(generateExtID(1), "ok"))}

IONNext ==
    \/ \E id \in CallerIDs \cup {0}, s \in BOOLEAN : IONSend(id, s)
    \/ IONDestroy
    \/ \E r \in Requests : IONRequestTimeout(r)
    \/ IONReconnectTimer
    \/ IONSocketConnect
    \/ IONSocketTimeout
    \/ IONSocketClose
    \/ IONSocketError
    \/ \E c \in IONChunks : IONSocketData(c)

SpecION == IONInit /\ [][IONNext]_vars

\* C29: once destroy() of the legacy client was called the client is
\* inactive for good and no new socket is created: the socket that
\* destroy() tore down is the last one, also when a reconnection timer was
\* pending at the call.
C29_DestroyIsFinal ==
    destroyedAt # 0 => ~alive /\ socket \in {"destroyed", "closed"}

\* When no reconnection timer is pending in a destroyed, inactive client,
\* the client stays inactive and makes no socket.
C29_FinalWithoutPendingTimer ==
    [][(destroyedAt # 0 /\ ~alive /\ reconnectTimers = 0)
          => ~alive' /\ socket' \in {"destroyed", "closed"} /\ reconnectTimers' = 0]_vars

\* The reconnection timer fired in a destroyed client: it is active again
\* with a new socket.
C29_TimerAfterDestroy ==
    /\ destroyedAt # 0
    /\ lastOp.op = "reconnectTimer"
    /\ alive /\ socket = "connecting"

====
